---- MODULE Spec2Model ----
(***************************************************************************)
(* Topics-and-cards CRUD service (Flask + SQLAlchemy over SQLite).         *)
(* The repository ships the service twice: the single-file application     *)
(* src/app.py and the package src/app/ (blueprints in src/app/routes).     *)
(* Both are modelled; they differ in the handler that serves               *)
(* GET /topics/<id>/cards.                                                 *)
(*                                                                         *)
(* The server runs each request in a thread of its own, with a session and *)
(* a connection of its own; the steps of a request are its handler's store *)
(* calls, and the requests of the workers interleave at them.              *)
(*                                                                         *)
(* Spec      : the workers send the topic requests in all their forms.     *)
(* SpecCards : the workers send the card requests in all their forms.      *)
(***************************************************************************)
EXTENDS Integers, Sequences, FiniteSets, TLC

VARIABLES topics, cards, clock, lock, pc, req, session, request, response

vars == <<topics, cards, clock, lock, pc, req, session, request, response>>

dbvars == <<topics, cards, clock>>

Workers == {"w1", "w2"}

(***************************************************************************)
(* Text.  A Python str is a sequence of Unicode code points, and so is     *)
(* every text of the model.  Lit spells a text from the literal that       *)
(* writes it.                                                              *)
(***************************************************************************)
\* code points 32 .. 126 in order; the grave accent (96) cannot be written in
\* a literal, a second space holds its place
Printable ==
    " !\"#$%&'()*+,-./0123456789:;<=>?@ABCDEFGHIJKLMNOPQRSTUVWXYZ[\\]^_ abcdefghijklmnopqrstuvwxyz{|}~"

\* ord(c) of the characters a literal can hold
ord ==
    [c \in {SubSeq(Printable, i, i) : i \in 1 .. Len(Printable)} \cup {"\t", "\n", "\r"} |->
        IF c = "\t" THEN 9
        ELSE IF c = "\n" THEN 10
        ELSE IF c = "\r" THEN 13
        ELSE 31 + CHOOSE i \in 1 .. Len(Printable) :
                      /\ SubSeq(Printable, i, i) = c
                      /\ \A j \in 1 .. i - 1 : SubSeq(Printable, j, j) # c]

Lit(s) == [i \in 1 .. Len(s) |-> ord[SubSeq(s, i, i)]]

\* str(n) of an integer
str(n) == Lit(ToString(n))

\* the code points c with chr(c).isspace(): the ones str.strip() removes
Whitespace ==
    {9, 10, 11, 12, 13, 28, 29, 30, 31, 32, 133, 160, 5760}
        \cup (8192 .. 8202) \cup {8232, 8233, 8239, 8287, 12288}

RECURSIVE lstrip(_)
lstrip(s) == IF Len(s) > 0 /\ Head(s) \in Whitespace THEN lstrip(Tail(s)) ELSE s

RECURSIVE rstrip(_)
rstrip(s) ==
    IF Len(s) > 0 /\ s[Len(s)] \in Whitespace THEN rstrip(SubSeq(s, 1, Len(s) - 1)) ELSE s

\* str.strip()
strip(s) == rstrip(lstrip(s))

\* "sub in s" on two texts
Contains(s, sub) ==
    \E i \in 1 .. Len(s) - Len(sub) + 1 : SubSeq(s, i, i + Len(sub) - 1) = sub

(***************************************************************************)
(* JSON values, as request.get_json() and request.args.get() hand them to  *)
(* the handlers: None, str, int, list, dict.  The keys of a dict are       *)
(* written as field names.                                                 *)
(***************************************************************************)
JNull == [t |-> "null"]

JStr(s) == [t |-> "str", v |-> s]

JNum(n) == [t |-> "num", v |-> n]

JList(xs) == [t |-> "list", v |-> xs]

JObj(d) == [t |-> "object", v |-> d]

\* request.get_json() gives None: the body is the JSON null
NoBody == JNull

Body(d) == JObj(d)

\* dict.get(key): the value, or None when the key is absent
Get(d, k) == IF k \in DOMAIN d THEN d[k] ELSE JNull

\* "not v"
Falsy(v) ==
    \/ v.t = "null"
    \/ v.t = "num" /\ v.v = 0
    \/ v.t \in {"str", "list"} /\ Len(v.v) = 0
    \/ v.t = "object" /\ DOMAIN v.v = {}

\* "key in data" for a dict, a list or a str (an int raises TypeError)
In(key, data) ==
    IF data.t = "object" THEN key \in DOMAIN data.v
    ELSE IF data.t = "list" THEN \E i \in 1 .. Len(data.v) : data.v[i] = JStr(Lit(key))
    ELSE data.t = "str" /\ Contains(data.v, Lit(key))

\* a list or a dict has no hash: looking it up in a set raises TypeError
Hashable(v) == v.t \notin {"list", "object"}

\* f"{v}" of a hashable value
Format(v) ==
    IF v.t = "str" THEN v.v
    ELSE IF v.t = "num" THEN str(v.v)
    ELSE Lit("None")

(***************************************************************************)
(* Constants and pure functions.                                           *)
(***************************************************************************)
VALID_CARD_TYPES ==
    {Lit("flashcard"), Lit("summary"), Lit("quiz"), Lit("task"), Lit("usecase"),
     Lit("mindmap")}

\* "v in VALID_CARD_TYPES" for a hashable value
Valid(v) == v.t = "str" /\ v.v \in VALID_CARD_TYPES

generate_dummy_content(topic, card_type) ==
    IF card_type = Lit("flashcard") THEN
        Lit("Q: What is ") \o topic \o Lit("?\nA: This is a simple explanation of ")
            \o topic \o Lit(".")
    ELSE IF card_type = Lit("summary") THEN
        Lit("Summary for ") \o topic \o Lit(": this is a short high-level summary.")
    ELSE IF card_type = Lit("quiz") THEN
        Lit("Quiz question about ") \o topic
            \o Lit(": write one key concept related to it.")
    ELSE IF card_type = Lit("task") THEN
        Lit("Task for ") \o topic
            \o Lit(": perform a small exercise that uses this topic in practice.")
    ELSE IF card_type = Lit("usecase") THEN
        Lit("Use case for ") \o topic \o Lit(": describe when and why you would use ")
            \o topic \o Lit(".")
    ELSE IF card_type = Lit("mindmap") THEN
        Lit("Mindmap structure for ") \o topic
            \o Lit(": main idea -> subtopic A, subtopic B, subtopic C.")
    ELSE Lit("Generic content for ") \o topic \o Lit(" (type: ") \o card_type \o Lit(").")

(***************************************************************************)
(* The store: two tables, rows as records.                                 *)
(***************************************************************************)
Ids(rows) == {r.id : r \in rows}

Max(S) == CHOOSE m \in S : \A n \in S : n <= m

\* INTEGER PRIMARY KEY without AUTOINCREMENT: one more than the largest id
NextId(rows) == IF rows = {} THEN 1 ELSE Max(Ids(rows)) + 1

RECURSIVE SortById(_)
\* Query.all(): the rows in primary-key order
SortById(rows) ==
    IF rows = {} THEN <<>>
    ELSE LET r == CHOOSE x \in rows : \A y \in rows : x.id <= y.id
         IN  <<r>> \o SortById(rows \ {r})

\* Topic.query.get(id) / Card.query.get(id): the set holding the row, or {}
RowsById(rows, id) == {r \in rows : r.id = id}

\* Topic.query.filter_by(name=...)
TopicsByName(tps, name) == {t \in tps : t.name = name}

\* name = db.Column(..., unique=True): the insert is refused
UniqueViolation(tps, name) == TopicsByName(tps, name) # {}

\* datetime.isoformat(): the timestamp as ISO-8601 text
isoformat(t) == [iso8601 |-> t]

Topic_to_dict(t) ==
    [id |-> t.id, name |-> t.name, created_at |-> isoformat(t.created_at)]

Card_to_dict(c) ==
    [id |-> c.id, topic_id |-> c.topic_id, card_type |-> c.card_type,
     content |-> c.content, created_at |-> isoformat(c.created_at)]

\* [t.to_dict() for t in topics]
TopicDicts(rowsSeq) == [i \in 1 .. Len(rowsSeq) |-> Topic_to_dict(rowsSeq[i])]

\* [c.to_dict() for c in cards]
CardDicts(rowsSeq) == [i \in 1 .. Len(rowsSeq) |-> Card_to_dict(rowsSeq[i])]

(***************************************************************************)
(* Responses.                                                              *)
(***************************************************************************)
Resp(status, body) == [status |-> status, body |-> body]

Error(status, msg) == Resp(status, [error |-> Lit(msg)])

InvalidType(msg) ==
    Resp(400, [error |-> msg, allowed_types |-> VALID_CARD_TYPES])

\* an exception no handler catches: the application answers 500 and the
\* request's session is rolled back
ServerError(exception) == Resp(500, [exception |-> exception])

TypeError == ServerError("TypeError")

AttributeError == ServerError("AttributeError")

NoResponse == Resp(0, [error |-> <<>>])

NoRequest == [op |-> "none"]

(***************************************************************************)
(* create_topic: POST /topics.                                             *)
(***************************************************************************)
\* topic_name = data["topic"].strip()
TopicName(body) == strip(body.v["topic"].v)

\* formats = data.get("formats", [])
Formats(body) ==
    IF "formats" \in DOMAIN body.v THEN body.v["formats"] ELSE JList(<<>>)

\* "f not in VALID_CARD_TYPES" neither raises nor holds
Passes(f) == Hashable(f) /\ Valid(f)

\* the first entry of formats the loop stops at
FirstInvalid(fs) ==
    LET i == CHOOSE k \in 1 .. Len(fs) :
                 /\ ~Passes(fs[k])
                 /\ \A j \in 1 .. k - 1 : Passes(fs[j])
    IN  fs[i]

\* the checks of the request body; NoResponse when they all pass
create_topic_validate(body) ==
    IF Falsy(body)
    THEN Error(400, "Missing 'topic' in request body")
    ELSE IF body.t = "num"
    THEN TypeError
    ELSE IF ~In("topic", body)
    THEN Error(400, "Missing 'topic' in request body")
    ELSE IF body.t # "object"
    THEN TypeError
    ELSE IF body.v["topic"].t # "str"
    THEN AttributeError
    ELSE IF Len(TopicName(body)) = 0
    THEN Error(400, "Topic name cannot be empty")
    ELSE IF Formats(body).t # "list" \/ Len(Formats(body).v) = 0
    THEN Error(400, "Formats must be a non-empty list")
    ELSE IF \E k \in 1 .. Len(Formats(body).v) : ~Passes(Formats(body).v[k])
    THEN IF ~Hashable(FirstInvalid(Formats(body).v))
         THEN TypeError
         ELSE InvalidType(Lit("Invalid card_type in formats: '")
                              \o Format(FirstInvalid(Formats(body).v)) \o Lit("'"))
    ELSE NoResponse

\* a faulty lookup: by the name as sent, not as trimmed
create_topic_lookup_Untrimmed(body, tps) ==
    IF TopicsByName(tps, body.v["topic"].v) # {}
    THEN Error(409, "Topic already exists")
    ELSE NoResponse

\* the "topic already exists" lookup; NoResponse when there is none
create_topic_lookup(body, tps) ==
    IF TopicsByName(tps, TopicName(body)) # {}
    THEN Error(409, "Topic already exists")
    ELSE NoResponse

\* everything before the first write: the body's checks, then the lookup
create_topic_check(body, tps) ==
    LET invalid == create_topic_validate(body)
    IN  IF invalid # NoResponse THEN invalid ELSE create_topic_lookup(body, tps)

\* new_topic = Topic(name=topic_name); add; flush: the row takes the time of
\* its insert
NewTopic(name, tps, now) == [id |-> NextId(tps), name |-> name, created_at |-> now]

\* a faulty loop: the cards are built from the last format to the first
NewCards_Reversed(topic, fs, cds, now) ==
    [i \in 1 .. Len(fs) |->
        [id |-> NextId(cds) + i - 1, topic_id |-> topic.id,
         card_type |-> fs[Len(fs) + 1 - i].v,
         content |-> generate_dummy_content(topic.name, fs[Len(fs) + 1 - i].v),
         created_at |-> now + i - 1]]

\* the cards of the loop over formats, in its order, as the commit inserts
\* them: one row after the other, each with the time of its insert
NewCards(topic, fs, cds, now) ==
    [i \in 1 .. Len(fs) |->
        [id |-> NextId(cds) + i - 1, topic_id |-> topic.id, card_type |-> fs[i].v,
         content |-> generate_dummy_content(topic.name, fs[i].v),
         created_at |-> now + i - 1]]

Range(f) == {f[i] : i \in DOMAIN f}

(***************************************************************************)
(* The read handlers.  q is request.args.get("type"): a text or None.      *)
(***************************************************************************)
list_topics(tps) == Resp(200, TopicDicts(SortById(tps)))

\* "if card_type:" a query value that is given and not the empty string
Truthy(q) == ~Falsy(q)

\* src/app.py, first handler registered for GET /topics/<id>/cards
list_topic_cards(topic_id, q, tps, cds) ==
    IF RowsById(tps, topic_id) = {} THEN Error(404, "Topic not found")
    ELSE IF Truthy(q)
    THEN Resp(200, CardDicts(SortById({c \in cds : c.topic_id = topic_id
                                                  /\ c.card_type = q.v})))
    ELSE Resp(200, CardDicts(SortById({c \in cds : c.topic_id = topic_id})))

get_topic_cards(topic_id, q, tps, cds) ==
    IF RowsById(tps, topic_id) = {} THEN Error(404, "Topic not found")
    ELSE IF Truthy(q) /\ ~Valid(q) THEN InvalidType(Lit("Invalid card_type"))
    ELSE IF Truthy(q)
    THEN Resp(200, CardDicts(SortById({c \in cds : c.topic_id = topic_id
                                                  /\ c.card_type = q.v})))
    ELSE Resp(200, CardDicts(SortById({c \in cds : c.topic_id = topic_id})))

get_cards(q, cds) ==
    IF Truthy(q) /\ ~Valid(q) THEN InvalidType(Lit("Invalid card_type"))
    ELSE IF Truthy(q)
    THEN Resp(200, CardDicts(SortById({c \in cds : c.card_type = q.v})))
    ELSE Resp(200, CardDicts(SortById(cds)))

health == Resp(200, [status |-> "ok"])

(***************************************************************************)
(* update_card and delete_card.                                            *)
(***************************************************************************)
\* data = request.get_json(silent=True) or {}
UpdateData(body) == IF Falsy(body) THEN JObj(<< >>) ELSE body

\* the value can be bound to a parameter of the UPDATE: a str or an int
Bindable(v) == v.t \in {"str", "num"}

\* what the TEXT column holds once the value is stored: an int as its digits
Stored(v) == IF v.t = "num" THEN str(v.v) ELSE v.v

\* the statement's parameters cannot be bound: the commit raises (sqlite3's
\* InterfaceError or ProgrammingError, by its version)
InterfaceError == ServerError("InterfaceError")

\* the card with the fields the body gives ("is not None") set
UpdatedCard(card, data) ==
    [card EXCEPT
        !.card_type = IF Get(data, "card_type") # JNull
                      THEN Get(data, "card_type").v ELSE @,
        !.content = IF Get(data, "content") # JNull
                    THEN Stored(Get(data, "content")) ELSE @]

\* a faulty check: any text passes as card_type
update_card_check_Unchecked(card_id, body, cds) ==
    IF RowsById(cds, card_id) = {} THEN Error(404, "Card not found")
    ELSE IF UpdateData(body).t # "object" THEN AttributeError
    ELSE IF /\ Get(UpdateData(body).v, "card_type") # JNull
            /\ Get(UpdateData(body).v, "card_type").t # "str"
    THEN TypeError
    ELSE NoResponse

\* everything before the commit: the lookup of the card and the checks of
\* the body; NoResponse when they all pass
update_card_check(card_id, body, cds) ==
    IF RowsById(cds, card_id) = {} THEN Error(404, "Card not found")
    ELSE IF UpdateData(body).t # "object" THEN AttributeError
    ELSE IF /\ Get(UpdateData(body).v, "card_type") # JNull
            /\ ~Hashable(Get(UpdateData(body).v, "card_type"))
    THEN TypeError
    ELSE IF /\ Get(UpdateData(body).v, "card_type") # JNull
            /\ ~Valid(Get(UpdateData(body).v, "card_type"))
    THEN InvalidType(Lit("Invalid card_type"))
    ELSE NoResponse

\* a faulty delete: it takes the topic's other cards with it
Deleted_Siblings(cds, card_id) ==
    {c \in cds : \A d \in RowsById(cds, card_id) : c.topic_id # d.topic_id}

\* db.session.delete(card); commit: DELETE FROM cards WHERE id = ?
Deleted(cds, card_id) == cds \ RowsById(cds, card_id)

(***************************************************************************)
(* The router: the rules in registration order; the first match serves.    *)
(***************************************************************************)
Rule(method, path, endpoint) == [method |-> method, path |-> path, endpoint |-> endpoint]

\* src/app.py: the @app.route decorators, top to bottom
url_map_monolith ==
    << Rule("GET", "/health", "health"),
       Rule("GET", "/topics", "list_topics"),
       Rule("POST", "/topics", "create_topic"),
       Rule("GET", "/topics/<int:topic_id>/cards", "list_topic_cards"),
       Rule("GET", "/topics/<int:topic_id>/cards", "get_topic_cards"),
       Rule("GET", "/cards", "get_cards"),
       Rule("PUT", "/cards/<int:card_id>", "update_card"),
       Rule("DELETE", "/cards/<int:card_id>", "delete_card") >>

\* src/app/__init__.py: topics_bp, cards_bp, then /health
url_map_package ==
    << Rule("GET", "/topics", "list_topics"),
       Rule("POST", "/topics", "create_topic"),
       Rule("GET", "/topics/<int:topic_id>/cards", "get_topic_cards"),
       Rule("GET", "/cards", "get_cards"),
       Rule("PUT", "/cards/<int:card_id>", "update_card"),
       Rule("DELETE", "/cards/<int:card_id>", "delete_card"),
       Rule("GET", "/health", "health") >>

Applications == {"app.py", "app"}

url_map(app) == IF app = "app.py" THEN url_map_monolith ELSE url_map_package

Matches(rule, method, path) == rule.method = method /\ rule.path = path

\* the endpoint of the first rule that matches
Dispatch(app, method, path) ==
    LET m == url_map(app)
        i == CHOOSE k \in 1 .. Len(m) :
                 /\ Matches(m[k], method, path)
                 /\ \A j \in 1 .. k - 1 : ~Matches(m[j], method, path)
    IN  m[i].endpoint

(***************************************************************************)
(* The requests the model sends.                                           *)
(***************************************************************************)
\* blank (space, EM SPACE, tab); "a" between NO-BREAK SPACE and CR LF; "A"
NameInputs ==
    {JStr(<<32, 8195, 9>>), JStr(<<160>> \o Lit("a\r\n")), JStr(Lit("A"))}

\* valid lists: one, two in an order, one twice
ValidLists ==
    {<<JStr(Lit("flashcard"))>>,
     <<JStr(Lit("quiz")), JStr(Lit("flashcard"))>>,
     <<JStr(Lit("flashcard")), JStr(Lit("flashcard"))>>}

\* none; an invalid entry alone, after and before a valid one
InvalidLists ==
    {<<>>, <<JStr(Lit("bogus"))>>, <<JStr(Lit("quiz")), JStr(Lit("bogus"))>>,
     <<JStr(Lit("bogus")), JStr(Lit("quiz"))>>}

\* entries that are not texts: an int, null, a list, a dict
UntypedLists ==
    {<<JNum(5)>>, <<JNull>>, <<JList(<<JStr(Lit("quiz"))>>)>>,
     <<JStr(Lit("bogus")), JList(<<>>)>>, <<JObj(<< >>), JStr(Lit("bogus"))>>}

\* values of formats that are refused
BadFormats ==
    {JNull, JStr(Lit("quiz"))} \cup {JList(fs) : fs \in InvalidLists \cup UntypedLists}

\* no formats, refused formats, or valid ones; the name "A" with one valid list
CreateBodies ==
    {NoBody, Body(<< >>), Body([formats |-> JList(<<JStr(Lit("quiz"))>>)]),
     JList(<<>>), JList(<<JStr(Lit("topic"))>>), JStr(Lit("my topic")),
     JStr(Lit("x")), JNum(0), JNum(5)}
        \cup {Body([topic |-> n]) : n \in NameInputs}
        \cup {Body([topic |-> n, formats |-> f]) : n \in NameInputs, f \in BadFormats}
        \cup {Body([topic |-> n, formats |-> JList(fs)]) :
                n \in NameInputs \ {JStr(Lit("A"))}, fs \in ValidLists}
        \cup {Body([topic |-> n, formats |-> JList(<<JStr(Lit("quiz"))>>)]) :
                n \in {JStr(Lit("A")), JNull, JNum(5)}}

UpdateDicts ==
    {<< >>, [card_type |-> JNull, content |-> JNull],
     [card_type |-> JNull, content |-> JStr(<<>>)],
     [card_type |-> JList(<<JStr(Lit("quiz"))>>), content |-> JStr(Lit("x"))]}
        \cup {[card_type |-> x] :
                x \in {JStr(Lit("quiz")), JStr(Lit("bogus")), JStr(<<>>), JNum(5),
                       JList(<<JStr(Lit("quiz"))>>), JObj(<< >>)}}
        \cup {[content |-> y] : y \in {JStr(<<>>), JNum(5), JList(<<>>)}}
        \cup {[card_type |-> JStr(Lit("quiz")), content |-> JStr(<<>>)],
              [card_type |-> JStr(Lit("bogus")), content |-> JStr(Lit("x"))]}

UpdateBodies == {NoBody, JList(<<JNum(1)>>)} \cup {Body(d) : d \in UpdateDicts}

QueryInputs == {JNull, JStr(<<>>), JStr(Lit("quiz")), JStr(Lit("bogus"))}

\* the ids in use and the first one that is not
IdInputs(rows) == 1 .. NextId(rows)

\* the card requests that go with the topic requests: a change of a card's
\* content, no query
RivalUpdateBodies == {Body([content |-> JStr(Lit("x"))])}

NoQuery == {JNull}

\* the topic requests that go with the card requests: a valid body for
\* either of two names, and two that formats makes invalid
CardsBodies ==
    {Body([topic |-> JStr(Lit("a")), formats |-> JList(<<JStr(Lit("flashcard"))>>)])}
        \cup {Body([topic |-> JStr(Lit("A")), formats |-> JList(fs)]) :
                fs \in {<<JStr(Lit("quiz"))>>, <<JStr(Lit("bogus"))>>,
                        <<JStr(Lit("quiz")), JList(<<>>)>>}}

\* exceptions of the store that no handler catches
IntegrityError == ServerError("IntegrityError: UNIQUE constraint failed: topics.name")

DatabaseLocked == ServerError("OperationalError: database is locked")

CommitFailed == ServerError("OperationalError")

StaleDataError == ServerError("StaleDataError")

ObjectDeletedError == ServerError("ObjectDeletedError")

(***************************************************************************)
(* Initial state: the tables just created, no request in flight.           *)
(***************************************************************************)
\* what a request's session holds: the topic it has inserted, the cards it
\* has loaded or inserted, and the cards it has read back for its response
NoSession == [new_topic |-> {}, cards |-> <<>>, read |-> <<>>]

Init ==
    /\ topics = {}
    /\ cards = {}
    /\ clock = 0
    /\ lock = "free"
    /\ pc = [w \in Workers |-> "idle"]
    /\ req = [w \in Workers |-> NoRequest]
    /\ session = [w \in Workers |-> NoSession]
    /\ request = NoRequest
    /\ response = NoResponse

(***************************************************************************)
(* One action per step of a handler; a step is what the handler does up to *)
(* and with one call of the store.  SQLite lets one connection write at a  *)
(* time and shows the others committed rows only: topics and cards are the *)
(* committed rows, lock is the connection that writes.  A writer that      *)
(* finds the database locked waits and, at the busy timeout, fails.  After *)
(* a commit the session's rows are expired: to_dict() reads each back.     *)
(* clock counts the rows committed so far and stands for the time: a row   *)
(* inserted later has a later created_at.                                  *)
(*                                                                         *)
(* request and response are the request answered by the step just taken    *)
(* and its response.  They are sent before anything else happens: sending  *)
(* is no step of the program, and nothing reads them.                      *)
(***************************************************************************)
\* no answer is waiting to be sent
Sent == request = NoRequest

\* the handler goes on to its next store call
Goes(w, to) ==
    /\ pc' = [pc EXCEPT ![w] = to]
    /\ request' = NoRequest
    /\ response' = NoResponse

\* the handler returns (or raises): the request is answered, its session is
\* removed and the worker is free
Answer(w, rq, rs) ==
    /\ request' = rq
    /\ response' = rs
    /\ pc' = [pc EXCEPT ![w] = "idle"]
    /\ req' = [req EXCEPT ![w] = NoRequest]
    /\ session' = [session EXCEPT ![w] = NoSession]

\* a faulty create_topic: the topic is committed before formats is looked at
Begin_TopicFirst(w, bodies) ==
    /\ Sent
    /\ pc[w] = "idle"
    /\ \E body \in bodies :
           LET chk == create_topic_check(body, topics)
               rq == [op |-> "create_topic", body |-> body]
               named == /\ body.t = "object"
                        /\ "topic" \in DOMAIN body.v
                        /\ body.v["topic"].t = "str"
                        /\ Len(TopicName(body)) > 0
                        /\ create_topic_lookup(body, topics) = NoResponse
           IN  IF chk # NoResponse
               THEN /\ Answer(w, rq, chk)
                    /\ topics' = IF named
                                 THEN topics \cup {NewTopic(TopicName(body), topics, clock)}
                                 ELSE topics
               ELSE /\ Goes(w, "flush")
                    /\ req' = [req EXCEPT ![w] = rq]
                    /\ UNCHANGED <<topics, session>>
    /\ UNCHANGED <<cards, clock, lock>>

\* create_topic, lines 30-55: the body's checks and the lookup
Begin(w, bodies) ==
    /\ Sent
    /\ pc[w] = "idle"
    /\ \E body \in bodies :
           LET chk == create_topic_check(body, topics)
               rq == [op |-> "create_topic", body |-> body]
           IN  IF chk # NoResponse
               THEN Answer(w, rq, chk)
               ELSE /\ Goes(w, "flush")
                    /\ req' = [req EXCEPT ![w] = rq]
                    /\ UNCHANGED session
    /\ UNCHANGED <<dbvars, lock>>

\* a faulty flush: a commit in its place, the topic is visible at once
Flush_Autocommit(w) ==
    /\ Sent
    /\ pc[w] = "flush"
    /\ lock = "free"
    /\ IF UniqueViolation(topics, TopicName(req[w].body))
       THEN /\ Answer(w, req[w], IntegrityError)
            /\ UNCHANGED <<topics, lock>>
       ELSE /\ session' =
                   [session EXCEPT
                       ![w].new_topic = {NewTopic(TopicName(req[w].body), topics, clock)}]
            /\ topics' = topics \cup {NewTopic(TopicName(req[w].body), topics, clock)}
            /\ lock' = w
            /\ Goes(w, "commit")
            /\ UNCHANGED req
    /\ UNCHANGED <<cards, clock>>

\* db.session.add(new_topic); db.session.flush(): the INSERT, not yet committed
Flush(w) ==
    /\ Sent
    /\ pc[w] = "flush"
    /\ lock = "free"
    /\ IF UniqueViolation(topics, TopicName(req[w].body))
       THEN /\ Answer(w, req[w], IntegrityError)
            /\ UNCHANGED lock
       ELSE /\ session' =
                   [session EXCEPT
                       ![w].new_topic = {NewTopic(TopicName(req[w].body), topics, clock)}]
            /\ lock' = w
            /\ Goes(w, "commit")
            /\ UNCHANGED req
    /\ UNCHANGED dbvars

\* the INSERT waits for another connection's write lock until the busy timeout
FlushBlocked(w) ==
    /\ Sent
    /\ pc[w] = "flush"
    /\ lock # "free"
    /\ Answer(w, req[w], DatabaseLocked)
    /\ UNCHANGED <<dbvars, lock>>

\* the loop over formats and db.session.commit(): topic and cards become visible
Commit(w) ==
    /\ Sent
    /\ pc[w] = "commit"
    /\ LET new_topic == CHOOSE t \in session[w].new_topic : TRUE
           created_cards ==
               NewCards(new_topic, Formats(req[w].body).v, cards, clock + 1)
       IN  /\ topics' = topics \cup {new_topic}
           /\ cards' = cards \cup Range(created_cards)
           /\ session' = [session EXCEPT ![w].cards = created_cards]
           /\ clock' = clock + 1 + Len(created_cards)
    /\ lock' = "free"
    /\ Goes(w, "return")
    /\ UNCHANGED req

\* an insert of a card or the commit fails: the session is rolled back
CommitFails(w) ==
    /\ Sent
    /\ pc[w] = "commit"
    /\ Answer(w, req[w], CommitFailed)
    /\ lock' = "free"
    /\ UNCHANGED dbvars

\* create_topic, lines 76-80: new_topic.to_dict(), then c.to_dict() for each
\* created card in turn, each a SELECT by id of its own; a step reads the next
\* card (the first step the topic too, a row that nothing changes), the last
\* one makes the response
Return(w) ==
    /\ Sent
    /\ pc[w] = "return"
    /\ LET created == session[w].cards
           i == Len(session[w].read) + 1
           read == session[w].read
                       \o <<Card_to_dict(CHOOSE c \in cards : c.id = created[i].id)>>
       IN  IF RowsById(cards, created[i].id) = {}
           THEN Answer(w, req[w], ObjectDeletedError)
           ELSE IF i = Len(created)
           THEN Answer(w, req[w],
                       Resp(201, [topic |-> Topic_to_dict(
                                                CHOOSE t \in session[w].new_topic : TRUE),
                                  cards |-> read]))
           ELSE /\ session' = [session EXCEPT ![w].read = read]
                /\ Goes(w, "return")
                /\ UNCHANGED req
    /\ UNCHANGED <<dbvars, lock>>

\* GET /topics: one SELECT
ListTopics(w) ==
    /\ Sent
    /\ pc[w] = "idle"
    /\ Answer(w, [op |-> "list_topics"], list_topics(topics))
    /\ UNCHANGED <<dbvars, lock>>

\* GET /topics/<id>/cards, served by the endpoint the application's router
\* picks: the topic's lookup, whose result no later request changes, and one
\* SELECT of the cards
GetTopicCards(w, queries) ==
    /\ Sent
    /\ pc[w] = "idle"
    /\ \E app \in Applications, topic_id \in IdInputs(topics), q \in queries :
           Answer(w, [op |-> "topic_cards", app |-> app, topic_id |-> topic_id,
                      type |-> q],
                  IF Dispatch(app, "GET", "/topics/<int:topic_id>/cards")
                         = "list_topic_cards"
                  THEN list_topic_cards(topic_id, q, topics, cards)
                  ELSE get_topic_cards(topic_id, q, topics, cards))
    /\ UNCHANGED <<dbvars, lock>>

\* GET /cards: one SELECT
GetCards(w, queries) ==
    /\ Sent
    /\ pc[w] = "idle"
    /\ \E q \in queries :
           Answer(w, [op |-> "get_cards", type |-> q], get_cards(q, cards))
    /\ UNCHANGED <<dbvars, lock>>

Health(w) ==
    /\ Sent
    /\ pc[w] = "idle"
    /\ Answer(w, [op |-> "health"], health)
    /\ UNCHANGED <<dbvars, lock>>

\* update_card, lines 38-56: the card is loaded and the body checked
UpdateBegin(w, bodies) ==
    /\ Sent
    /\ pc[w] = "idle"
    /\ \E card_id \in IdInputs(cards), body \in bodies :
           LET chk == update_card_check(card_id, body, cards)
               rq == [op |-> "update_card", card_id |-> card_id, body |-> body]
           IN  IF chk # NoResponse
               THEN Answer(w, rq, chk)
               ELSE /\ session' =
                           [session EXCEPT
                               ![w].cards = <<CHOOSE c \in cards : c.id = card_id>>]
                    /\ req' = [req EXCEPT ![w] = rq]
                    /\ Goes(w, "update_commit")
    /\ UNCHANGED <<dbvars, lock>>

\* the fields the request has changed on the card it loaded: the value it
\* sets, as the body gives it, is not equal to the value loaded (a text; an
\* int is never equal to a text, 5 == '5' is False)
Dirty(w) ==
    LET card == session[w].cards[1]
        data == UpdateData(req[w].body).v
    IN  {k \in {"card_type", "content"} :
            /\ Get(data, k) # JNull
            /\ ~(Get(data, k).t = "str" /\ Get(data, k).v = card[k])}

\* the content the request sets cannot be bound
Unbindable(w) ==
    /\ Get(UpdateData(req[w].body).v, "content") # JNull
    /\ ~Bindable(Get(UpdateData(req[w].body).v, "content"))

\* update_card, line 58: UPDATE cards SET <the changed fields> WHERE id = ?,
\* and the commit; no statement when no field has changed
UpdateCommit(w) ==
    /\ Sent
    /\ pc[w] = "update_commit"
    /\ IF Unbindable(w)
       THEN /\ Answer(w, req[w], InterfaceError)
            /\ UNCHANGED cards
       ELSE IF Dirty(w) = {}
       THEN /\ Goes(w, "update_return")
            /\ UNCHANGED <<cards, req, session>>
       ELSE /\ lock = "free"
            /\ LET card == session[w].cards[1]
                   new == UpdatedCard(card, UpdateData(req[w].body).v)
               IN  IF RowsById(cards, card.id) = {}
                   THEN /\ Answer(w, req[w], StaleDataError)
                        /\ UNCHANGED cards
                   ELSE /\ cards' =
                               {IF c.id = card.id
                                THEN [k \in DOMAIN c |->
                                         IF k \in Dirty(w) THEN new[k] ELSE c[k]]
                                ELSE c : c \in cards}
                        /\ Goes(w, "update_return")
                        /\ UNCHANGED <<req, session>>
    /\ UNCHANGED <<topics, clock, lock>>

\* the UPDATE waits for another connection's write lock until the busy timeout
UpdateBlocked(w) ==
    /\ Sent
    /\ pc[w] = "update_commit"
    /\ ~Unbindable(w)
    /\ Dirty(w) # {}
    /\ lock # "free"
    /\ Answer(w, req[w], DatabaseLocked)
    /\ UNCHANGED <<dbvars, lock>>

\* update_card, line 60: the card is read back by id for the response
UpdateReturn(w) ==
    /\ Sent
    /\ pc[w] = "update_return"
    /\ Answer(w, req[w],
              IF RowsById(cards, req[w].card_id) = {}
              THEN ObjectDeletedError
              ELSE Resp(200, Card_to_dict(CHOOSE c \in cards : c.id = req[w].card_id)))
    /\ UNCHANGED <<dbvars, lock>>

\* delete_card, lines 68-72: the card is loaded and marked for deletion
DeleteBegin(w) ==
    /\ Sent
    /\ pc[w] = "idle"
    /\ \E card_id \in IdInputs(cards) :
           LET rq == [op |-> "delete_card", card_id |-> card_id]
           IN  IF RowsById(cards, card_id) = {}
               THEN Answer(w, rq, Error(404, "Card not found"))
               ELSE /\ session' =
                           [session EXCEPT
                               ![w].cards = <<CHOOSE c \in cards : c.id = card_id>>]
                    /\ req' = [req EXCEPT ![w] = rq]
                    /\ Goes(w, "delete_commit")
    /\ UNCHANGED <<dbvars, lock>>

\* delete_card, lines 73-75: the DELETE and the commit; a statement that
\* matches no row is a warning, not an error
DeleteCommit(w) ==
    /\ Sent
    /\ pc[w] = "delete_commit"
    /\ lock = "free"
    /\ cards' = Deleted(cards, req[w].card_id)
    /\ Answer(w, req[w], Resp(200, [status |-> "deleted", id |-> req[w].card_id]))
    /\ UNCHANGED <<topics, clock, lock>>

\* the DELETE waits for another connection's write lock until the busy timeout
DeleteBlocked(w) ==
    /\ Sent
    /\ pc[w] = "delete_commit"
    /\ lock # "free"
    /\ Answer(w, req[w], DatabaseLocked)
    /\ UNCHANGED <<dbvars, lock>>

\* the answer goes out
Deliver ==
    /\ ~Sent
    /\ request' = NoRequest
    /\ response' = NoResponse
    /\ UNCHANGED <<dbvars, lock, pc, req, session>>

\* the workers send the topic requests in all their forms
Next ==
    \/ \E w \in Workers : Begin(w, CreateBodies)
    \/ \E w \in Workers : Flush(w)
    \/ \E w \in Workers : FlushBlocked(w)
    \/ \E w \in Workers : Commit(w)
    \/ \E w \in Workers : CommitFails(w)
    \/ \E w \in Workers : Return(w)
    \/ \E w \in Workers : ListTopics(w)
    \/ \E w \in Workers : GetCards(w, NoQuery)
    \/ \E w \in Workers : UpdateBegin(w, RivalUpdateBodies)
    \/ \E w \in Workers : UpdateCommit(w)
    \/ \E w \in Workers : UpdateBlocked(w)
    \/ \E w \in Workers : UpdateReturn(w)
    \/ \E w \in Workers : DeleteBegin(w)
    \/ \E w \in Workers : DeleteCommit(w)
    \/ \E w \in Workers : DeleteBlocked(w)
    \/ Deliver

Spec == Init /\ [][Next]_vars

\* the workers send the card requests in all their forms
NextCards ==
    \/ \E w \in Workers : Begin(w, CardsBodies)
    \/ \E w \in Workers : Flush(w)
    \/ \E w \in Workers : FlushBlocked(w)
    \/ \E w \in Workers : Commit(w)
    \/ \E w \in Workers : CommitFails(w)
    \/ \E w \in Workers : Return(w)
    \/ \E w \in Workers : GetTopicCards(w, QueryInputs)
    \/ \E w \in Workers : GetCards(w, QueryInputs)
    \/ \E w \in Workers : Health(w)
    \/ \E w \in Workers : UpdateBegin(w, UpdateBodies)
    \/ \E w \in Workers : UpdateCommit(w)
    \/ \E w \in Workers : UpdateBlocked(w)
    \/ \E w \in Workers : UpdateReturn(w)
    \/ \E w \in Workers : DeleteBegin(w)
    \/ \E w \in Workers : DeleteCommit(w)
    \/ \E w \in Workers : DeleteBlocked(w)
    \/ Deliver

SpecCards == Init /\ [][NextCards]_vars

(***************************************************************************)
(* Vocabulary of the claims, spelled without the handlers' own operators.  *)
(***************************************************************************)
Min(S) == CHOOSE m \in S : \A n \in S : m <= n

\* the text without its leading and trailing whitespace
Trimmed(s) ==
    LET keep == {i \in 1 .. Len(s) : s[i] \notin Whitespace}
    IN  IF keep = {} THEN <<>> ELSE SubSeq(s, Min(keep), Max(keep))

\* the body is an object whose topic is a text
HasTopic(body) ==
    body.t = "object" /\ "topic" \in DOMAIN body.v /\ body.v["topic"].t = "str"

TrimmedName(body) == Trimmed(body.v["topic"].v)

\* formats is given and is a non-empty list of valid card types
GoodFormats(body) ==
    /\ body.t = "object"
    /\ "formats" \in DOMAIN body.v
    /\ body.v["formats"].t = "list"
    /\ Len(body.v["formats"].v) >= 1
    /\ \A i \in 1 .. Len(body.v["formats"].v) :
           /\ body.v["formats"].v[i].t = "str"
           /\ body.v["formats"].v[i].v \in VALID_CARD_TYPES

NameStored(body, tps) == \E t \in tps : t.name = TrimmedName(body)

\* the field is in the body and is not null
Provided(body, k) ==
    body.t = "object" /\ k \in DOMAIN body.v /\ body.v[k] # JNull

\* the value is a text that names a card type
ValidType(v) == v.t = "str" /\ v.v \in VALID_CARD_TYPES

StoreUnchanged == topics' = topics /\ cards' = cards

\* the step answers a request at the request's first step
AtOnce == request' # NoRequest /\ pc' = pc

\* the step takes worker w from one place of its handler to another
Moves(w, from, to) == pc[w] = from /\ pc'[w] = to

(***************************************************************************)
(* C1: a create-topic request with a non-empty trimmed name that is not    *)
(* stored and a non-empty list of valid formats f1..fn is not refused; its *)
(* insert goes through when the name is still not stored and no other      *)
(* request is writing; its commit stores one new topic with the trimmed    *)
(* name and exactly n new cards, the i-th in id order with card_type fi,   *)
(* the new topic's id and the generated content for (trimmed name, fi);    *)
(* and its response is 201 with the topic and these cards in the order of  *)
(* formats, each as stored when no other request has changed it since.     *)
(***************************************************************************)
C1_Pre(body, tps) ==
    /\ HasTopic(body)
    /\ Len(TrimmedName(body)) > 0
    /\ GoodFormats(body)
    /\ ~NameStored(body, tps)

C1_Stored(w) ==
    LET body == req[w].body
        fs == body.v["formats"].v
        newTopics == topics' \ topics
        newCards == cards' \ cards
    IN  /\ topics \subseteq topics'
        /\ cards \subseteq cards'
        /\ Cardinality(newTopics) = 1
        /\ Cardinality(newCards) = Len(fs)
        /\ Len(session'[w].cards) = Len(fs)
        /\ \A t \in newTopics :
               /\ t.name = TrimmedName(body)
               /\ t.id \notin Ids(topics)
               /\ \A i \in 1 .. Len(fs) :
                      LET c == session'[w].cards[i]
                      IN  /\ c \in newCards
                          /\ Cardinality({d \in newCards : d.id < c.id}) = i - 1
                          /\ c.id \notin Ids(cards)
                          /\ c.card_type = fs[i].v
                          /\ c.topic_id = t.id
                          /\ c.content = generate_dummy_content(TrimmedName(body), fs[i].v)

C1_Returned(w) ==
    LET body == req[w].body
        fs == body.v["formats"].v
        created == session[w].cards
        i == Len(session[w].read) + 1
    IN  created[i] \in cards
        => LET got == IF request' # NoRequest THEN response'.body.cards
                      ELSE session'[w].read
           IN  /\ Len(got) = i
               /\ \A j \in 1 .. i - 1 : got[j] = session[w].read[j]
               /\ got[i].id = created[i].id
               /\ got[i].topic_id = created[i].topic_id
               /\ got[i].card_type = fs[i].v
               /\ got[i].content = generate_dummy_content(TrimmedName(body), fs[i].v)
               /\ (i = Len(fs))
                  => /\ request' = req[w]
                     /\ response'.status = 201
                     /\ \E t \in topics :
                            /\ t.id = created[i].topic_id
                            /\ t.name = TrimmedName(body)
                            /\ response'.body.topic = Topic_to_dict(t)

C1_CreateYieldsCardsInOrder ==
    [][/\ (AtOnce /\ request'.op = "create_topic") => ~C1_Pre(request'.body, topics)
       /\ \A w \in Workers :
              /\ Moves(w, "idle", "flush") => C1_Pre(req'[w].body, topics)
              /\ (/\ pc[w] = "flush"
                  /\ pc'[w] # "flush"
                  /\ lock = "free"
                  /\ ~NameStored(req[w].body, topics))
                 => pc'[w] = "commit"
              /\ Moves(w, "commit", "return") => C1_Stored(w)
              /\ (pc[w] = "return" /\ session'[w] # session[w]) => C1_Returned(w)]_vars

\* a padded name and two formats: the cards come back in the order asked for
C1_Witness ==
    /\ request.op = "create_topic"
    /\ request.body = Body([topic |-> JStr(<<160>> \o Lit("a\r\n")),
                            formats |-> JList(<<JStr(Lit("quiz")),
                                                JStr(Lit("flashcard"))>>)])
    /\ response.status = 201
    /\ response.body.topic.name = Lit("a")
    /\ Len(response.body.cards) = 2
    /\ response.body.cards[1].card_type = Lit("quiz")
    /\ response.body.cards[2].card_type = Lit("flashcard")
    /\ response.body.cards[2].content
           = Lit("Q: What is a?\nA: This is a simple explanation of a.")

(***************************************************************************)
(* C2: a create-topic request whose trimmed name is the name of a topic    *)
(* stored is always answered 409 and changes nothing, whatever its         *)
(* formats.                                                                *)
(***************************************************************************)
C2_DuplicateAlways409 ==
    [][(/\ AtOnce
        /\ request'.op = "create_topic"
        /\ HasTopic(request'.body)
        /\ NameStored(request'.body, topics))
       => (response'.status = 409 /\ StoreUnchanged)]_vars

\* formats is a non-empty list whose first entry that is not a valid card
\* type is an array or an object
C2_Raises(body) ==
    /\ "formats" \in DOMAIN body.v
    /\ body.v["formats"].t = "list"
    /\ \E k \in 1 .. Len(body.v["formats"].v) :
           /\ body.v["formats"].v[k].t \in {"list", "object"}
           /\ \A j \in 1 .. k - 1 : ValidType(body.v["formats"].v[j])

(***************************************************************************)
(* C2, amended: a create-topic request whose trimmed name is the name of a *)
(* topic stored goes no further than the lookup and changes nothing; it is *)
(* answered 409 when its formats is a non-empty list of valid card types,  *)
(* and otherwise it is rejected by the checks of formats, which come       *)
(* first: 400, or 500 where the check meets an array or an object before   *)
(* any other invalid entry.                                                *)
(***************************************************************************)
C2_DuplicateRejected ==
    [][/\ (/\ AtOnce
           /\ request'.op = "create_topic"
           /\ HasTopic(request'.body)
           /\ NameStored(request'.body, topics))
          => (/\ StoreUnchanged
              /\ response'.status = IF GoodFormats(request'.body) THEN 409
                                    ELSE IF C2_Raises(request'.body) THEN 500
                                    ELSE 400)
       /\ \A w \in Workers :
              Moves(w, "idle", "flush") => ~NameStored(req'[w].body, topics)]_vars

\* the stored name "a" is asked for again, padded, with valid formats
C2_Witness ==
    /\ request.op = "create_topic"
    /\ request.body = Body([topic |-> JStr(<<160>> \o Lit("a\r\n")),
                            formats |-> JList(<<JStr(Lit("flashcard"))>>)])
    /\ response = Error(409, "Topic already exists")
    /\ \E t \in topics : t.name = Lit("a")

(***************************************************************************)
(* C4: a create-topic request with no body, no topic key, an empty trimmed *)
(* name, formats that is not a non-empty list, or an entry of formats      *)
(* outside VALID_CARD_TYPES goes no further than the checks and is         *)
(* answered 400 (its values being of the JSON types the checks can         *)
(* handle), and every request answered 400 adds no topic and no card.      *)
(***************************************************************************)
C4_Invalid(body) ==
    \/ body = JNull
    \/ "topic" \notin DOMAIN body.v
    \/ Len(TrimmedName(body)) = 0
    \/ ~GoodFormats(body)

\* null or an object; the topic, if any, a text; no array or object in formats
C4_Typed(body) ==
    \/ body = JNull
    \/ /\ body.t = "object"
       /\ "topic" \in DOMAIN body.v => body.v["topic"].t = "str"
       /\ ("formats" \in DOMAIN body.v /\ body.v["formats"].t = "list")
          => \A i \in 1 .. Len(body.v["formats"].v) :
                 body.v["formats"].v[i].t \notin {"list", "object"}

C4_RejectedPersistsNothing ==
    [][/\ (request'.op = "create_topic" /\ response'.status = 400) => StoreUnchanged
       /\ (/\ AtOnce
           /\ request'.op = "create_topic"
           /\ C4_Typed(request'.body)
           /\ C4_Invalid(request'.body))
          => response'.status = 400
       /\ \A w \in Workers :
              Moves(w, "idle", "flush") => ~C4_Invalid(req'[w].body)]_vars

\* a valid entry before the invalid one, on a name that is free, with
\* another topic stored
C4_Witness ==
    /\ request.op = "create_topic"
    /\ request.body = Body([topic |-> JStr(Lit("A")),
                            formats |-> JList(<<JStr(Lit("quiz")),
                                                JStr(Lit("bogus"))>>)])
    /\ response = InvalidType(Lit("Invalid card_type in formats: 'bogus'"))
    /\ \A t \in topics : t.name # Lit("A")
    /\ topics # {}

(***************************************************************************)
(* C5: GET /topics/<id>/cards is answered 404 when the topic does not      *)
(* exist; otherwise, when a non-empty type value is given and is outside   *)
(* VALID_CARD_TYPES, it is answered 400 with the allowed types, in either  *)
(* application.                                                            *)
(***************************************************************************)
C5_InvalidTypeRejected ==
    request.op = "topic_cards"
    => IF RowsById(topics, request.topic_id) = {}
       THEN response.status = 404
       ELSE (/\ request.type # JNull
             /\ Len(request.type.v) > 0
             /\ request.type.v \notin VALID_CARD_TYPES)
            => response = Resp(400, [error |-> Lit("Invalid card_type"),
                                     allowed_types |-> VALID_CARD_TYPES])

(***************************************************************************)
(* C6: a delete of an id that is not stored is answered 404 and changes    *)
(* nothing; a delete of a stored id is not refused, and its DELETE, unless *)
(* another request is writing, is answered 200 with that id and removes    *)
(* the card of that id and nothing else; an id that is not stored comes    *)
(* back only through the commit of a create-topic request, so a delete     *)
(* sent after the first was answered, with no such commit in between, is   *)
(* answered 404.                                                           *)
(***************************************************************************)
C6_DeleteStep ==
    /\ (AtOnce /\ request'.op = "delete_card")
       => /\ request'.card_id \notin Ids(cards)
          /\ response'.status = 404
          /\ StoreUnchanged
    /\ \A w \in Workers :
           /\ Moves(w, "idle", "delete_commit")
              => req'[w].card_id \in Ids(cards) /\ StoreUnchanged
           /\ Moves(w, "delete_commit", "idle")
              => IF lock = "free"
                 THEN /\ request' = req[w]
                      /\ response' = Resp(200, [status |-> "deleted",
                                                id |-> req[w].card_id])
                      /\ cards' = {c \in cards : c.id # req[w].card_id}
                      /\ req[w].card_id \in Ids(cards)
                         => Cardinality(cards') = Cardinality(cards) - 1
                      /\ topics' = topics
                 ELSE response'.status = 500 /\ StoreUnchanged

C6_IdsReturnOnlyByCreate ==
    (Ids(cards') \ Ids(cards) # {})
    => \E w \in Workers : Moves(w, "commit", "return")

C6_DeleteOnceThenNotFound == [][C6_DeleteStep /\ C6_IdsReturnOnlyByCreate]_vars

\* card 1 of a topic with two cards is gone, its sibling is left, and a
\* further delete of card 1 was answered 404
C6_Witness ==
    /\ request = [op |-> "delete_card", card_id |-> 1]
    /\ response = Error(404, "Card not found")
    /\ Ids(cards) = {2}
    /\ topics # {}

(***************************************************************************)
(* C7: an update of an id that is not stored is answered 404, an update of *)
(* a stored card with an invalid card_type 400, and both change nothing;   *)
(* an update that goes on to its UPDATE changes only the fields the body   *)
(* provides: card_type and content keep their value when absent or null,   *)
(* id, topic_id and created_at never change, and no other row changes.     *)
(***************************************************************************)
C7_UpdateStep ==
    /\ (AtOnce /\ request'.op = "update_card" /\ request'.card_id \notin Ids(cards))
       => response'.status = 404 /\ StoreUnchanged
    /\ (/\ AtOnce
        /\ request'.op = "update_card"
        /\ request'.card_id \in Ids(cards)
        /\ Provided(request'.body, "card_type")
        /\ ~ValidType(request'.body.v["card_type"]))
       => response'.status = 400 /\ StoreUnchanged
    /\ \A w \in Workers :
           /\ Moves(w, "idle", "update_commit")
              => /\ req'[w].card_id \in Ids(cards)
                 /\ Provided(req'[w].body, "card_type")
                    => ValidType(req'[w].body.v["card_type"])
                 /\ StoreUnchanged
           /\ (pc[w] = "update_commit" /\ pc'[w] # "update_commit")
              => /\ topics' = topics
                 /\ Cardinality(cards') = Cardinality(cards)
                 /\ \A old \in cards :
                        IF old.id = req[w].card_id
                        THEN \E new \in cards' :
                                 /\ new.id = old.id
                                 /\ new.topic_id = old.topic_id
                                 /\ new.created_at = old.created_at
                                 /\ ~Provided(req[w].body, "card_type")
                                    => new.card_type = old.card_type
                                 /\ ~Provided(req[w].body, "content")
                                    => new.content = old.content
                        ELSE old \in cards'

C7_UpdateChangesOnlyProvided == [][C7_UpdateStep]_vars

(***************************************************************************)
(* C8: every stored card has its card_type in VALID_CARD_TYPES.            *)
(***************************************************************************)
C8_CardTypesValid == \A c \in cards : c.card_type \in VALID_CARD_TYPES

\* an update of a stored card to an invalid card_type has just been refused
C8_Witness ==
    /\ request.op = "update_card"
    /\ request.card_id \in Ids(cards)
    /\ Provided(request.body, "card_type")
    /\ request.body.v["card_type"] = JStr(Lit("bogus"))
    /\ response.status = 400

(***************************************************************************)
(* C9: every stored card has non-empty content.                            *)
(***************************************************************************)
C9_ContentNonEmpty == \A c \in cards : Len(c.content) > 0

(***************************************************************************)
(* C3: when create-topic requests with the same name overlap, the store    *)
(* never holds two topics with one name, and the request that loses (its   *)
(* body is valid, and it ends without a topic of its own while the name is *)
(* stored or held by another request's insert, other than by a lock        *)
(* timeout or a failed commit) is answered 409.                            *)
(***************************************************************************)
C3_Valid(body) ==
    /\ HasTopic(body)
    /\ Len(TrimmedName(body)) > 0
    /\ GoodFormats(body)

\* another request has inserted a topic of this name and not yet committed
C3_Held(body) ==
    \E v \in Workers :
        /\ pc[v] = "commit"
        /\ \E t \in session[v].new_topic : t.name = TrimmedName(body)

C3_Loser ==
    /\ request.op = "create_topic"
    /\ C3_Valid(request.body)
    /\ response.status # 201
    /\ response \notin {CommitFailed, DatabaseLocked, ObjectDeletedError}
    /\ NameStored(request.body, topics) \/ C3_Held(request.body)

C3_LoserGetsConflict ==
    /\ \A t, u \in topics : t.name = u.name => t = u
    /\ C3_Loser => response.status = 409

(***************************************************************************)
(* C10: a topic becomes visible only together with all the cards its       *)
(* request asked for, and cards only together with their topic: between    *)
(* the flush and the commit, and after a failed commit, the committed      *)
(* tables, which are what list-topics and list-cards return, hold neither  *)
(* the new topic nor any of its cards.                                     *)
(***************************************************************************)
\* the topic a worker has flushed and not committed
Pending(w) == IF pc[w] = "commit" THEN session[w].new_topic ELSE {}

C10_Step ==
    /\ \A t \in topics' \ topics :
           \E w \in Workers :
               /\ Pending(w) = {t}
               /\ Cardinality({c \in cards' : c.topic_id = t.id /\ c.id \notin Ids(cards)})
                      = Len(req[w].body.v["formats"].v)
               /\ \A c \in cards : c.topic_id # t.id
    /\ \A c \in cards' :
           c.id \notin Ids(cards) => \E t \in topics' \ topics : c.topic_id = t.id
    /\ \A w \in Workers :
           (Pending(w) # {} /\ pc'[w] = "idle") => StoreUnchanged
    /\ request'.op = "list_topics"
       => /\ response'.body = TopicDicts(SortById(topics))
          /\ \A w \in Workers : \A t \in Pending(w) :
                 \A i \in 1 .. Len(response'.body) : response'.body[i] # Topic_to_dict(t)
    /\ (request'.op = "get_cards" /\ response'.status = 200)
       => \A i \in 1 .. Len(response'.body) :
              /\ \E t \in topics : t.id = response'.body[i].topic_id
              /\ \A w \in Workers : \A t \in Pending(w) :
                     response'.body[i].topic_id # t.id

C10_TopicAndCardsTogether == [][C10_Step]_vars

\* a topic with two formats is flushed and not committed, and list-topics
\* has just answered with the committed rows, this topic not among them
C10_Witness ==
    /\ \E w \in Workers :
           /\ Pending(w) # {}
           /\ Pending(w) \cap topics = {}
           /\ Len(req[w].body.v["formats"].v) = 2
    /\ request.op = "list_topics"
    /\ response = list_topics(topics)
    /\ \E t \in topics : t.name = Lit("A")

====
